---- MODULE Spec2Model ----
(***************************************************************************)
(* A model of two parts of EasyFEA:                                        *)
(*   - materials/_elastic.py : the elastic laws Elas_Isot, Elas_IsotTrans  *)
(*     and Elas_Anisot, with their lazily updated matrices C and S;        *)
(*   - fem/elems/_prism.py   : the shape functions of PRISM6 and PRISM15.  *)
(*                                                                         *)
(* Numbers.  The code computes in floating point.  The model computes in   *)
(* the field Q(sqrt 2) exactly: a number is a triple <<a, b, d>> standing  *)
(* for (a + b*sqrt(2)) / d, with d > 0 and gcd(a, b, d) = 1, so that two   *)
(* numbers are equal exactly when their triples are.  A tolerance test of  *)
(* the code (a relative error <= 1e-12) is an exact equality here: every   *)
(* quantity of the model is a ratio of small integers, and two different   *)
(* ones differ by far more than 1e-12.  Parameters are scalars (the        *)
(* heterogeneous, array-valued case is outside the model).                 *)
(***************************************************************************)
EXTENDS Integers, Sequences, FiniteSets, TLC

VARIABLES
    law,    \* the elastic law object: a record of its attributes
    last,   \* the last operation on the law and its outcome
    elem,   \* the prism element whose shape functions are evaluated
    pt,     \* the reference coordinates <<r, s, t>> of the evaluation
    val     \* the outcome of the last evaluation of a shape-function table

vars == <<law, last, elem, pt, val>>

(***************************************************************************)
(* Bounds of the model.                                                    *)
(***************************************************************************)
\* moduli (E, El) are drawn from -1..MaxE; the values <= 0 are inadmissible
MaxE == 2
\* reference coordinates are drawn from the half-integers k/2, |k| <= MaxGrid
MaxGrid == 2
\* finite-difference steps are drawn from the half-integers k/2, 1 <= k <= MaxStep
MaxStep == 2

(***************************************************************************)
(* Exact arithmetic in Q(sqrt 2).                                          *)
(***************************************************************************)
Abs(a) == IF a < 0 THEN -a ELSE a

RECURSIVE GCD(_, _)
GCD(a, b) == IF b = 0 THEN a ELSE GCD(b, a % b)

\* <<a, b, d>> divided by s
Scale(a, b, d, s) == <<a \div s, b \div s, d \div s>>

\* the normal form of (a + b*sqrt(2)) / d, d # 0
Q(a, b, d) ==
    Scale(a, b, d, (IF d < 0 THEN -1 ELSE 1) * GCD(GCD(Abs(a), Abs(b)), Abs(d)))

\* the rational n / d
R(n, d) == Q(n, 0, d)

\* the integer n
I(n) == <<n, 0, 1>>

Zero == I(0)

One == I(1)

\* np.sqrt(2), the Kelvin-Mandel coefficient
coef == <<0, 1, 1>>

IsZero(p) == p[1] = 0 /\ p[2] = 0

Neg(p) == <<-p[1], -p[2], p[3]>>

Add(p, q) ==
    IF IsZero(p) THEN q
    ELSE IF IsZero(q) THEN p
    ELSE Q(p[1] * q[3] + q[1] * p[3], p[2] * q[3] + q[2] * p[3], p[3] * q[3])

Sub(p, q) == Add(p, Neg(q))

Mul(p, q) ==
    IF IsZero(p) \/ IsZero(q) THEN Zero
    ELSE IF q = One THEN p
    ELSE IF p = One THEN q
    ELSE Q(p[1] * q[1] + 2 * p[2] * q[2], p[1] * q[2] + p[2] * q[1], p[3] * q[3])

\* 1 / p, p # 0:  d / (a + b*sqrt 2) = d*(a - b*sqrt 2) / (a^2 - 2*b^2)
Inv(p) == Q(p[3] * p[1], -(p[3] * p[2]), p[1] * p[1] - 2 * p[2] * p[2])

Div(p, q) == Mul(p, Inv(q))

\* p > 0
Pos(p) ==
    \/ p[1] > 0 /\ p[2] >= 0
    \/ p[1] >= 0 /\ p[2] > 0
    \/ p[1] > 0 /\ p[2] < 0 /\ p[1] * p[1] > 2 * p[2] * p[2]
    \/ p[1] < 0 /\ p[2] > 0 /\ 2 * p[2] * p[2] > p[1] * p[1]

\* p < q
Less(p, q) == Pos(Sub(q, p))

\* p <= q
Leq(p, q) == ~Pos(Sub(p, q))

(***************************************************************************)
(* Vectors and matrices: sequences, and sequences of rows.                 *)
(***************************************************************************)
\* a function over 1..n as a sequence whose elements are evaluated once
Seq_(f) == f \o <<>>

RECURSIVE Sum(_, _, _)
Sum(f, lo, hi) == IF lo > hi THEN Zero ELSE Add(f[lo], Sum(f, lo + 1, hi))

\* u @ v
Dot(u, v) == Sum(Seq_([k \in 1..Len(u) |-> Mul(u[k], v[k])]), 1, Len(u))

\* A @ B
MatMul(A, B) ==
    LET n == Len(A)
        m == Len(B)
        c == Len(B[1])
    IN  Seq_([i \in 1..n |-> Seq_([j \in 1..c |->
            Sum(Seq_([k \in 1..m |-> Mul(A[i][k], B[k][j])]), 1, m)])])

\* A.T
Transpose(A) == Seq_([j \in 1..Len(A[1]) |-> Seq_([i \in 1..Len(A) |-> A[i][j]])])

\* np.eye(n)
Eye(n) == Seq_([i \in 1..n |-> Seq_([j \in 1..n |-> IF i = j THEN One ELSE Zero])])

\* np.zeros((n, n))
Zeros(n) == Seq_([i \in 1..n |-> Seq_([j \in 1..n |-> Zero])])

\* A[x,:][:,x]: the sub-matrix at the indices listed in x
SubMat(A, x) == Seq_([i \in 1..Len(x) |-> Seq_([j \in 1..Len(x) |-> A[x[i]][x[j]]])])

IsSquare(A, n) == Len(A) = n /\ \A i \in 1..n : Len(A[i]) = n

\* Gauss-Jordan elimination of the augmented matrix A = [M | I], column k on
RECURSIVE GaussJordan(_, _, _)
GaussJordan(A, k, n) ==
    IF k > n
    THEN [ok |-> TRUE, m |-> Seq_([i \in 1..n |-> SubSeq(A[i], n + 1, 2 * n)])]
    ELSE LET P == {i \in k..n : ~IsZero(A[i][k])}
         IN  IF P = {}
             THEN [ok |-> FALSE, m |-> <<>>]
             ELSE LET p == CHOOSE i \in P : \A j \in P : i <= j
                      piv == Inv(A[p][k])
                      rowk == Seq_([j \in 1..(2 * n) |-> Mul(A[p][j], piv)])
                      B == Seq_([i \in 1..n |->
                               IF i = k THEN rowk
                               ELSE LET src == IF i = p THEN A[k] ELSE A[i]
                                        f == src[k]
                                    IN  IF IsZero(f) THEN src
                                        ELSE Seq_([j \in 1..(2 * n) |->
                                                 Sub(src[j], Mul(f, rowk[j]))])])
                  IN  GaussJordan(B, k + 1, n)

\* np.linalg.inv(A): the inverse (ok), or LinAlgError for a singular matrix (~ok)
MatInv(A) ==
    LET n == Len(A)
        E_ == Eye(n)
    IN  GaussJordan(Seq_([i \in 1..n |-> A[i] \o E_[i]]), 1, n)

(***************************************************************************)
(* Primitives the elastic laws take from the rest of the package           *)
(* (materials/_utils.py, Geoms): modelled from their description.          *)
(***************************************************************************)
\* an attribute that has not been assigned yet
Unset == <<>>

\* _IModel.Need_Update(value): sets the staleness flag of the law
Need_Update(L, value) == [L EXCEPT !.needUpdate = value]

\* _IModel._Test_Sup0(value): passes when value > 0
Test_Sup0(value) == Pos(value)

\* _IModel._Test_In(value, bInf, bSup): passes when bInf < value < bSup
Test_In(value, bInf, bSup) == Less(bInf, value) /\ Less(value, bSup)

\* the default bounds of _Test_In: ]-1; 0.5[
Test_In_default(value) == Test_In(value, I(-1), R(1, 2))

\* the Kelvin-Mandel coefficient of index i of a dim-dimensional Voigt vector
KM_coef(dim, i) == IF (dim = 2 /\ i = 3) \/ (dim = 3 /\ i > 3) THEN coef ELSE One

\* KelvinMandel_Matrix(dim, M): shear rows and columns scaled by sqrt(2)
KelvinMandel_Matrix(dim, M) ==
    Seq_([i \in 1..Len(M) |-> Seq_([j \in 1..Len(M) |->
        Mul(M[i][j], Mul(KM_coef(dim, i), KM_coef(dim, j)))])])

\* the square roots the normalisations of the model need
Roots == {One, coef, I(2), Q(0, 1, 2)}

Sqrt(x) == CHOOSE y \in Roots : Mul(y, y) = x

\* Normalize_vect(u): u / ||u||
Divide_vect(u, n) == Seq_([k \in 1..3 |-> Div(u[k], n)])

Normalize_vect(u) == Divide_vect(u, Sqrt(Dot(u, u)))

\* np.cross(u, v)
Cross(u, v) ==
    << Sub(Mul(u[2], v[3]), Mul(u[3], v[2])),
       Sub(Mul(u[3], v[1]), Mul(u[1], v[3])),
       Sub(Mul(u[1], v[2]), Mul(u[2], v[1])) >>

\* the pair of tensor indices of Voigt index I: 4 -> yz, 5 -> xz, 6 -> xy
VoigtPair(J) == IF J = 4 THEN <<2, 3>> ELSE IF J = 5 THEN <<1, 3>> ELSE <<1, 2>>

\* the matrix whose columns are the vectors a1, a2, a3
Columns(a1, a2, a3) == Seq_([i \in 1..3 |-> <<a1[i], a2[i], a3[i]>>])

\* the Kelvin-Mandel matrix of the base change sigma -> p sigma p^T
Pmat_of(p) ==
    Seq_([II \in 1..6 |-> Seq_([JJ \in 1..6 |->
        IF II <= 3 /\ JJ <= 3 THEN Mul(p[II][JJ], p[II][JJ])
        ELSE IF II <= 3
             THEN Mul(coef, Mul(p[II][VoigtPair(JJ)[1]], p[II][VoigtPair(JJ)[2]]))
        ELSE IF JJ <= 3
             THEN Mul(coef, Mul(p[VoigtPair(II)[1]][JJ], p[VoigtPair(II)[2]][JJ]))
        ELSE Add(Mul(p[VoigtPair(II)[1]][VoigtPair(JJ)[1]],
                     p[VoigtPair(II)[2]][VoigtPair(JJ)[2]]),
                 Mul(p[VoigtPair(II)[1]][VoigtPair(JJ)[2]],
                     p[VoigtPair(II)[2]][VoigtPair(JJ)[1]]))])])

\* Get_Pmat(axis_1, axis_2): the Kelvin-Mandel matrix of the base change to
\* the base made of the two axes and their normalised cross product
Get_Pmat(axis_1, axis_2) ==
    Pmat_of(Columns(axis_1, axis_2, Normalize_vect(Cross(axis_1, axis_2))))

\* Apply_Pmat(P, M): the matrix M in the global base, P M P^T
Apply_Pmat(P, M) == MatMul(MatMul(P, M), Transpose(P))

(***************************************************************************)
(* The inputs of the operations.                                           *)
(***************************************************************************)
Dims == {1, 2, 3}

\* E, El: -1 and 0 are inadmissible
Moduli == {I(k) : k \in (-1)..MaxE}

\* v: -1, 1/2 and 1 are inadmissible
Poissons == {R(k, 2) : k \in (-2)..2}

Thicknesses == {Zero, One}

EtInputs == {Zero, I(2), I(4)}

GlInputs == {Zero, One}

vlInputs == {Zero, R(1, 2), One}

vtInputs == {Zero, R(1, 2)}

\* pairs of axes: the global frame, a frame turned by 45 degrees about z,
\* a pair with a negative dot product and a pair with a positive one
AxesInputs ==
    { << <<One, Zero, Zero>>, <<Zero, One, Zero>> >>,
      << <<One, One, Zero>>, <<I(-1), One, Zero>> >>,
      << <<One, Zero, Zero>>, <<I(-1), One, Zero>> >>,
      << <<One, Zero, Zero>>, <<One, One, Zero>> >> }

(***************************************************************************)
(* The law object.                                                         *)
(***************************************************************************)
NoLaw ==
    [kind |-> "none", dim |-> 0, thickness |-> Unset, planeStress |-> FALSE,
     needUpdate |-> TRUE, C |-> Unset, S |-> Unset,
     E |-> Unset, v |-> Unset,
     El |-> Unset, Et |-> Unset, Gl |-> Unset, vl |-> Unset, vt |-> Unset,
     axis_l |-> Unset, axis_t |-> Unset, axis1 |-> Unset, axis2 |-> Unset]

\* the record of an operation: its name, its arguments (of a constructor: the
\* dimension, the axes and the matrix), whether it raised, whether it ran
\* _Update, and the value it returned
Outcome(op, arg, raised, updated, ret) ==
    [op |-> op, arg |-> arg, raised |-> raised, updated |-> updated, ret |-> ret]

\* _Elas.__init__(dim, thickness, planeStress)
Elas_init(L, dim, thickness, planeStress) ==
    IF dim = 2 /\ ~Pos(thickness)
    THEN [ok |-> FALSE, law |-> L]
    ELSE [ok |-> TRUE,
          law |-> [L EXCEPT !.dim = dim,
                            !.thickness = IF dim = 2 THEN thickness ELSE Unset,
                            !.planeStress = IF dim = 2 THEN planeStress ELSE FALSE]]

\* the shape the C and S setters accept
ShapeOk(L, array) == IsSquare(array, IF L.dim = 2 THEN 3 ELSE 6)

(***************************************************************************)
(* Elas_Isot                                                               *)
(***************************************************************************)
\* Elas_Isot.get_mu
get_mu(L) == Div(L.E, Mul(I(2), Add(One, L.v)))

\* a get_lambda without its plane-stress case
get_lambda_3D(L) ==
    Div(Mul(L.E, L.v), Mul(Add(One, L.v), Sub(One, Mul(I(2), L.v))))

\* Elas_Isot.get_lambda
get_lambda(L) ==
    IF L.dim = 2 /\ L.planeStress
    THEN Div(Mul(L.E, L.v), Sub(One, Mul(L.v, L.v)))
    ELSE Div(Mul(L.E, L.v), Mul(Add(One, L.v), Sub(One, Mul(I(2), L.v))))

\* Elas_Isot.get_bulk
get_bulk(L) == Add(get_lambda(L), Div(Mul(I(2), get_mu(L)), I(L.dim)))

\* the divisions of get_mu and get_lambda are defined (no ZeroDivisionError)
Isot_defined(L) ==
    /\ ~IsZero(Add(One, L.v))
    /\ ~IsZero(Sub(One, Mul(I(2), L.v)))
    /\ (L.dim = 2 /\ L.planeStress) => ~IsZero(Sub(One, Mul(L.v, L.v)))

\* the result of a _Behavior that raised
Failed == [ok |-> FALSE, c |-> Unset, s |-> Unset]

\* the pair (c, s), from c and the result of its inversion
c_inv(c, inv) == [ok |-> inv.ok, c |-> c, s |-> inv.m]

\* the pair (c, s), from s and the result of its inversion
s_inv(s, inv) == [ok |-> inv.ok, c |-> inv.m, s |-> s]

\* c and s = np.linalg.inv(c)
From_c(c) == c_inv(c, MatInv(c))

\* s and c = np.linalg.inv(s)
From_s(s) == s_inv(s, MatInv(s))

\* cVoigt of Elas_Isot._Behavior, d = l + 2 mu
Isot_cVoigt(dim, mu, l, d) ==
    IF dim = 2
    THEN << <<d, l, Zero>>,
            <<l, d, Zero>>,
            <<Zero, Zero, mu>> >>
    ELSE << <<d, l, l, Zero, Zero, Zero>>,
            <<l, d, l, Zero, Zero, Zero>>,
            <<l, l, d, Zero, Zero, Zero>>,
            <<Zero, Zero, Zero, mu, Zero, Zero>>,
            <<Zero, Zero, Zero, Zero, mu, Zero>>,
            <<Zero, Zero, Zero, Zero, Zero, mu>> >>

\* c = KelvinMandel_Matrix(dim, cVoigt) and s = np.linalg.inv(c)
Isot_c_s(dim, mu, l) ==
    From_c(KelvinMandel_Matrix(dim, Isot_cVoigt(dim, mu, l, Add(l, Mul(I(2), mu)))))

\* Elas_Isot._Behavior(dim): the matrices c and s, or an error
Isot_Behavior(L, dim) ==
    IF ~Isot_defined(L) THEN Failed
    ELSE Isot_c_s(dim, get_mu(L), get_lambda(L))

\* a parameter setter that forgets Need_Update()
Param_setter_noflag(L, name, value, passes) ==
    IF passes
    THEN [ok |-> TRUE, law |-> [L EXCEPT ![name] = value]]
    ELSE [ok |-> FALSE, law |-> L]

\* a parameter setter that calls Need_Update() before the test
Param_setter_flagfirst(L, name, value, passes) ==
    IF passes
    THEN [ok |-> TRUE, law |-> [Need_Update(L, TRUE) EXCEPT ![name] = value]]
    ELSE [ok |-> FALSE, law |-> Need_Update(L, TRUE)]

\* a setter of a physical parameter: the test, Need_Update(), the assignment
Param_setter(L, name, value, passes) ==
    IF passes
    THEN [ok |-> TRUE, law |-> [Need_Update(L, TRUE) EXCEPT ![name] = value]]
    ELSE [ok |-> FALSE, law |-> L]

\* the setter of E
E_setter(L, value) == Param_setter(L, "E", value, Test_Sup0(value))

\* the setter of v
v_setter(L, value) == Param_setter(L, "v", value, Test_In_default(value))

\* Elas_Isot.__init__(dim, E, v, planeStress, thickness)
\* (self.E = E and self.v = v go through the setters: their tests, then
\* Need_Update() on an object whose flag is already set, then the assignment)
Isot_init(dim, E, v, planeStress, thickness) ==
    IF dim \notin {2, 3} \/ ~Test_Sup0(E) \/ ~Test_In_default(v)
    THEN [ok |-> FALSE, law |-> NoLaw]
    ELSE Elas_init([NoLaw EXCEPT !.kind = "Elas_Isot", !.E = E, !.v = v],
                   dim, thickness, planeStress)

\* a planeStress setter that forgets Need_Update()
planeStress_setter_noflag(L, value) ==
    [ok |-> TRUE, law |-> [L EXCEPT !.planeStress = value]]

\* a planeStress setter that calls Need_Update() only when the value becomes true
planeStress_setter_flagtrue(L, value) ==
    [ok |-> TRUE,
     law |-> [(IF L.planeStress # value /\ value THEN Need_Update(L, TRUE) ELSE L)
                 EXCEPT !.planeStress = value]]

\* the setter of planeStress (value is a bool)
planeStress_setter(L, value) ==
    [ok |-> TRUE,
     law |-> [(IF L.planeStress # value THEN Need_Update(L, TRUE) ELSE L)
                 EXCEPT !.planeStress = value]]

\* x <= 1e-12, for the quantities x of the model: integers and ratios of
\* small integers, none of which lies in ]0; 1e-12]
WithinTol(x) == ~Pos(x)

(***************************************************************************)
(* Elas_IsotTrans                                                          *)
(***************************************************************************)
El_setter(L, value) == Param_setter(L, "El", value, Test_Sup0(value))

Et_setter(L, value) == Param_setter(L, "Et", value, Test_Sup0(value))

Gl_setter(L, value) == Param_setter(L, "Gl", value, Test_Sup0(value))

vl_setter(L, value) == Param_setter(L, "vl", value, Test_In(value, I(-1), One))

vt_setter(L, value) == Param_setter(L, "vt", value, Test_In_default(value))

\* the test of perpendicularity of the constructors: axis1 @ axis2 <= 1e-12
AxesAccepted(a1, a2) == WithinTol(Dot(a1, a2))

\* Elas_IsotTrans.__init__ (the assignments go through the setters, as in
\* Elas_Isot.__init__)
IsotTrans_init(dim, El, Et, Gl, vl, vt, axis_l, axis_t, planeStress, thickness) ==
    IF \/ dim \notin {2, 3}
       \/ ~Test_Sup0(El) \/ ~Test_Sup0(Et) \/ ~Test_Sup0(Gl)
       \/ ~Test_In(vl, I(-1), One) \/ ~Test_In_default(vt)
       \/ ~AxesAccepted(axis_l, axis_t)
    THEN [ok |-> FALSE, law |-> NoLaw]
    ELSE Elas_init([NoLaw EXCEPT !.kind = "Elas_IsotTrans",
                                 !.El = El, !.Et = Et, !.Gl = Gl,
                                 !.vl = vl, !.vt = vt,
                                 !.axis_l = Normalize_vect(axis_l),
                                 !.axis_t = Normalize_vect(axis_t)],
                   dim, thickness, planeStress)

\* Elas_IsotTrans.Gt
Gt(L) == Div(L.Et, Mul(I(2), Add(One, L.vt)))

\* the denominator of kt
kt_den(L) ==
    Sub(Mul(Mul(I(2), Sub(One, L.vt)), L.El),
        Mul(Mul(I(4), Mul(L.vl, L.vl)), L.Et))

\* Elas_IsotTrans.kt
kt(L) == Div(Mul(L.El, L.Et), kt_den(L))

\* Elas_IsotTrans._useSameAxis
useSameAxis(L) ==
    /\ L.axis_l = <<One, Zero, Zero>>
    /\ L.axis_t = <<Zero, One, Zero>>

\* the matrix of a transversely isotropic law in the material base
Mat_lt(a, b, c, d, gt, gl) ==
    << <<a, b, b, Zero, Zero, Zero>>,
       <<b, c, d, Zero, Zero, Zero>>,
       <<b, d, c, Zero, Zero, Zero>>,
       <<Zero, Zero, Zero, gt, Zero, Zero>>,
       <<Zero, Zero, Zero, Zero, gl, Zero>>,
       <<Zero, Zero, Zero, Zero, Zero, gl>> >>

\* material_sM: the compliance of the law in the material base
material_sM(L) ==
    Mat_lt(Inv(L.El), Neg(Div(L.vl, L.El)), Inv(L.Et), Neg(Div(L.vt, L.Et)),
           Inv(Mul(I(2), Gt(L))), Inv(Mul(I(2), L.Gl)))

\* material_cM, for the values kt and Gt of the properties
cM_of(L, kt_, Gt_) ==
    Mat_lt(Add(L.El, Mul(Mul(I(4), Mul(L.vl, L.vl)), kt_)),
           Mul(Mul(I(2), kt_), L.vl),
           Add(kt_, Gt_), Sub(kt_, Gt_),
           Mul(I(2), Gt_), Mul(I(2), L.Gl))

\* material_cM: the stiffness of the law in the material base
material_cM(L) == cM_of(L, kt(L), Gt(L))

\* the inversion of A gave B
IsInverse(inv, B) == inv.ok /\ inv.m = B

\* a 2D simplification that extracts from the other matrix
IsotTrans_reduce_swapped(L, global_cM, global_sM) ==
    IF L.planeStress
    THEN From_c(SubMat(global_cM, <<1, 2, 6>>))
    ELSE From_s(SubMat(global_sM, <<1, 2, 6>>))

\* the 2D simplification of Elas_IsotTrans._Behavior
IsotTrans_reduce(L, global_cM, global_sM) ==
    IF L.planeStress
    THEN From_s(SubMat(global_sM, <<1, 2, 6>>))
    ELSE From_c(SubMat(global_cM, <<1, 2, 6>>))

\* Elas_IsotTrans._Behavior from the matrices in the global base on
IsotTrans_global(L, dim, sM, cM, global_sM, global_cM) ==
    IF useSameAxis(L) /\ (global_cM # cM \/ global_sM # sM) THEN Failed
    ELSE IF dim = 2 THEN IsotTrans_reduce(L, global_cM, global_sM)
    ELSE [ok |-> TRUE, c |-> global_cM, s |-> global_sM]

\* Elas_IsotTrans._Behavior from the matrices in the material base on
IsotTrans_material(L, dim, P, sM, cM) ==
    IF ~IsInverse(MatInv(cM), sM) \/ ~IsInverse(MatInv(sM), cM) THEN Failed
    ELSE IsotTrans_global(L, dim, sM, cM, Apply_Pmat(P, sM), Apply_Pmat(P, cM))

\* Elas_IsotTrans._Behavior(dim, P): the matrices c and s, or an error
IsotTrans_Behavior(L, dim, P) ==
    IF IsZero(kt_den(L)) \/ IsZero(Add(One, L.vt)) THEN Failed
    ELSE IsotTrans_material(L, dim, P, material_sM(L), material_cM(L))

(***************************************************************************)
(* Elas_Anisot                                                             *)
(***************************************************************************)
\* a matrix of integers as a matrix of numbers
IntMat(M) == Seq_([i \in 1..Len(M) |-> Seq_([j \in 1..Len(M[i]) |-> I(M[i][j])])])

\* the matrices given to Elas_Anisot: a 3x3 and a 6x6 symmetric invertible
\* matrix, a non-symmetric one, a 2x2 one, a symmetric singular one
MatInputs ==
    { IntMat(<< <<2, 1, 1>>, <<1, 2, 0>>, <<1, 0, 1>> >>),
      IntMat(<< <<1, 1, 0>>, <<1, 1, 0>>, <<0, 0, 1>> >>),
      IntMat(<< <<2, 1, 0, 0, 0, 1>>,
                <<1, 2, 0, 0, 0, 0>>,
                <<0, 0, 2, 0, 0, 0>>,
                <<0, 0, 0, 1, 0, 0>>,
                <<0, 0, 0, 0, 1, 0>>,
                <<1, 0, 0, 0, 0, 1>> >>),
      IntMat(<< <<1, 1, 0>>, <<0, 1, 0>>, <<0, 0, 1>> >>),
      IntMat(<< <<1, 0>>, <<0, 1>> >>) }

\* norm(C.T - C) / norm(C) <= 1e-12 (a zero C gives nan, which fails the test)
testSym(C) == C = Transpose(C) /\ \E i \in 1..Len(C), j \in 1..Len(C) : ~IsZero(C[i][j])

\* the 3x3 matrix M set at the indices 0, 1, 5 of a 6x6 matrix of zeros
Embed(M) ==
    Seq_([II \in 1..6 |-> Seq_([JJ \in 1..6 |->
        LET i == IF II = 6 THEN 3 ELSE II
            j == IF JJ = 6 THEN 3 ELSE JJ
        IN  IF II \in {1, 2, 6} /\ JJ \in {1, 2, 6} THEN M[i][j] ELSE Zero])])

\* the matrix in the base of the law's axes, reduced to the law's dimension
Anisot_rotate(L, C_mandel_global) ==
    IF L.dim = 2
    THEN SubMat(Apply_Pmat(Get_Pmat(L.axis1, L.axis2), C_mandel_global), <<1, 2, 6>>)
    ELSE Apply_Pmat(Get_Pmat(L.axis1, L.axis2), C_mandel_global)

\* _Behavior once C has passed the tests: dim is the dimension of C, C_mandel
\* its Kelvin-Mandel form; a 6x6 C goes on as it was given
Anisot_global(L, C, dim, C_mandel) ==
    [ok |-> TRUE,
     c |-> Anisot_rotate(L, IF dim = 2 THEN Embed(C_mandel) ELSE C)]

\* Elas_Anisot._Behavior(C, useVoigtNotation): C_mandelP, or an error
Anisot_Behavior(L, C, useVoigtNotation) ==
    IF ~(IsSquare(C, 3) \/ IsSquare(C, 6)) THEN [ok |-> FALSE, c |-> Unset]
    ELSE IF ~testSym(C) THEN [ok |-> FALSE, c |-> Unset]
    ELSE Anisot_global(L, C, IF Len(C) = 6 THEN 3 ELSE 2,
                       IF useVoigtNotation
                       THEN KelvinMandel_Matrix(IF Len(C) = 6 THEN 3 ELSE 2, C)
                       ELSE C)

\* Elas_Anisot.__init__ up to its call of Set_C
Anisot_new(dim, axis1, axis2, thickness) ==
    IF dim \notin {2, 3} \/ ~AxesAccepted(axis1, axis2)
    THEN [ok |-> FALSE, law |-> NoLaw]
    ELSE Elas_init([NoLaw EXCEPT !.kind = "Elas_Anisot",
                                 !.axis1 = Normalize_vect(axis1),
                                 !.axis2 = Normalize_vect(axis2)],
                   dim, thickness, FALSE)

(***************************************************************************)
(* The values of the _Behavior methods, tabulated.  _Behavior reads the    *)
(* law's parameters only (not C, S or needUpdate), so its value is a       *)
(* function of Params(L); the tables hold it for every value of the        *)
(* parameters a law of the model can take.  They are computed once.        *)
(***************************************************************************)
\* the attributes of the law that _Behavior may read
Params(L) == [L EXCEPT !.C = Unset, !.S = Unset, !.needUpdate = TRUE]

\* the laws the constructors return
IsotLaws ==
    { r.law : r \in { x \in { Isot_init(dim, E, v, planeStress, thickness) :
                                dim \in Dims, E \in Moduli, v \in Poissons,
                                planeStress \in BOOLEAN, thickness \in Thicknesses } :
                      x.ok } }

IsotTransLaws ==
    { r.law : r \in { x \in { IsotTrans_init(dim, El, Et, Gl, vl, vt, ax[1], ax[2],
                                             planeStress, thickness) :
                                dim \in Dims, El \in Moduli, Et \in EtInputs,
                                Gl \in GlInputs, vl \in vlInputs, vt \in vtInputs,
                                ax \in AxesInputs, planeStress \in BOOLEAN,
                                thickness \in Thicknesses } :
                      x.ok } }

AnisotLaws ==
    { r.law : r \in { x \in { Anisot_new(dim, ax[1], ax[2], thickness) :
                                dim \in Dims, ax \in AxesInputs,
                                thickness \in Thicknesses } :
                      x.ok } }

\* the values of the parameters of a law: those of a constructed law, with
\* either value of planeStress
ParamValues(laws) == { [L EXCEPT !.planeStress = b] : L \in laws, b \in BOOLEAN }

\* _Behavior(self.dim), as _Update calls it
Behavior(L) ==
    IF L.kind = "Elas_Isot" THEN Isot_Behavior(L, L.dim)
    ELSE IsotTrans_Behavior(L, L.dim, Get_Pmat(L.axis_l, L.axis_t))

BehaviorTable == [K \in ParamValues(IsotLaws \cup IsotTransLaws) |-> Behavior(K)]

\* the result of _Behavior and of the inversion that Set_C makes of it
With_inverse(b) ==
    [ok |-> b.ok, c |-> b.c,
     inv |-> IF b.ok THEN MatInv(b.c) ELSE [ok |-> FALSE, m |-> Unset]]

\* Elas_Anisot._Behavior(C, useVoigtNotation), and the inverse that Set_C takes
AnisotTable ==
    [K \in ParamValues(AnisotLaws) \X MatInputs \X BOOLEAN |->
        With_inverse(Anisot_Behavior(K[1], K[2], K[3]))]

\* self.C, self.S = b of _Update: the setters of C and S check the shape
Update_to(L, b) ==
    IF b.ok /\ ShapeOk(L, b.c) /\ ShapeOk(L, b.s)
    THEN [ok |-> TRUE, law |-> [L EXCEPT !.C = b.c, !.S = b.s]]
    ELSE [ok |-> FALSE, law |-> L]

\* Elas_Isot._Update and Elas_IsotTrans._Update
Behavior_Update(L) == Update_to(L, BehaviorTable[Params(L)])

\* an _Update of Elas_Anisot that drops the compliance
Anisot_Update_clears(L) == [ok |-> TRUE, law |-> [L EXCEPT !.S = Unset]]

\* Elas_Anisot._Update: does nothing
Anisot_Update(L) == [ok |-> TRUE, law |-> L]

\* _Update of the law's class
Update(L) == IF L.kind = "Elas_Anisot" THEN Anisot_Update(L) ELSE Behavior_Update(L)

\* Set_C after Need_Update(): b is the result of _Behavior and of the inversion
Set_C_to(L1, b, update_S) ==
    IF ~b.ok \/ ~ShapeOk(L1, b.c) THEN [ok |-> FALSE, law |-> L1]
    ELSE IF ~update_S THEN [ok |-> TRUE, law |-> [L1 EXCEPT !.C = b.c]]
    ELSE IF ~b.inv.ok THEN [ok |-> FALSE, law |-> [L1 EXCEPT !.C = b.c]]
    ELSE [ok |-> TRUE, law |-> [L1 EXCEPT !.C = b.c, !.S = b.inv.m]]

\* Elas_Anisot.Set_C(C, useVoigtNotation, update_S)
Anisot_Set_C(L, C, useVoigtNotation, update_S) ==
    Set_C_to(Need_Update(L, TRUE),
             AnisotTable[<<Params(L), C, useVoigtNotation>>], update_S)

\* __init__ after the axes are set: Set_C(C, useVoigtNotation)
Anisot_init_C(r1, C, useVoigtNotation) ==
    IF ~r1.ok THEN [ok |-> FALSE, law |-> NoLaw]
    ELSE Anisot_Set_C(r1.law, C, useVoigtNotation, TRUE)

\* Elas_Anisot.__init__(dim, C, useVoigtNotation, axis1, axis2, thickness)
Anisot_init(dim, C, useVoigtNotation, axis1, axis2, thickness) ==
    Anisot_init_C(Anisot_new(dim, axis1, axis2, thickness), C, useVoigtNotation)

\* the getter after _Update(): Need_Update(False), and the attribute
Updated(u, name) ==
    IF u.ok
    THEN [ok |-> TRUE, law |-> Need_Update(u.law, FALSE), ret |-> u.law[name],
          updated |-> TRUE]
    ELSE [ok |-> FALSE, law |-> u.law, ret |-> Unset, updated |-> TRUE]

\* a getter that runs _Update() whether the law is stale or not
Getter_eager(L, name) == Updated(Update(L), name)

\* the getters of C and S: _Update() and Need_Update(False) when the law is stale
Getter(L, name) ==
    IF ~L.needUpdate
    THEN [ok |-> TRUE, law |-> L, ret |-> L[name], updated |-> FALSE]
    ELSE Updated(Update(L), name)

\* property C
C_getter(L) == Getter(L, "C")

\* property S
S_getter(L) == Getter(L, "S")

(***************************************************************************)
(* Elas_Isot.Walpole_Decomposition                                         *)
(***************************************************************************)
\* x * A
MatScale(x, A) ==
    Seq_([i \in 1..Len(A) |-> Seq_([j \in 1..Len(A[i]) |-> Mul(x, A[i][j])])])

\* A + B, for two matrices of the same shape
MatAdd(A, B) ==
    Seq_([i \in 1..Len(A) |-> Seq_([j \in 1..Len(A[i]) |-> Add(A[i][j], B[i][j])])])

\* A - B, for two matrices of the same shape
MatSub(A, B) ==
    Seq_([i \in 1..Len(A) |-> Seq_([j \in 1..Len(A[i]) |-> Sub(A[i][j], B[i][j])])])

\* Tensor_Product(a, b) of two vectors: the matrix of the products a_i b_j
Tensor_Product(a, b) ==
    Seq_([i \in 1..Len(a) |-> Seq_([j \in 1..Len(b) |-> Mul(a[i], b[j])])])

\* Ivect = np.array([1,1,1,0,0,0])
Ivect == <<One, One, One, Zero, Zero, Zero>>

\* E1 = 1/3 * Tensor_Product(Ivect, Ivect)
Walpole_E1 == MatScale(R(1, 3), Tensor_Product(Ivect, Ivect))

\* E2 = Isym - E1
Walpole_E2 == MatSub(Eye(6), Walpole_E1)

\* 3*c1*E1 + 2*c2*E2
Walpole_sum(c1, c2) ==
    MatAdd(MatScale(Mul(I(3), c1), Walpole_E1), MatScale(Mul(I(2), c2), Walpole_E2))

\* a Walpole_Decomposition that raised, after the read g of C
Walpole_raised(g) ==
    [ok |-> FALSE, law |-> g.law, ret |-> Unset, updated |-> g.updated]

\* Walpole_Decomposition from the read g of C on: the subtraction of the 6x6
\* sum and C raises when C is 3x3, and the test is an assertion
Walpole_test(g, c1, c2) ==
    IF ~g.ok THEN Walpole_raised(g)
    ELSE IF Len(g.ret) # 6 THEN Walpole_raised(g)
    ELSE IF Walpole_sum(c1, c2) # g.ret THEN Walpole_raised(g)
    ELSE [ok |-> TRUE, law |-> g.law,
          ret |-> << <<c1, c2>>,
                     <<MatScale(I(3), Walpole_E1), MatScale(I(2), Walpole_E2)>> >>,
          updated |-> g.updated]

\* Elas_Isot.Walpole_Decomposition(): isHeterogeneous and C = self.C read C
Isot_Walpole_Decomposition(L) ==
    IF ~Isot_defined(L)
    THEN [ok |-> FALSE, law |-> L, ret |-> Unset, updated |-> FALSE]
    ELSE Walpole_test(C_getter(L), get_bulk(L), get_mu(L))

(***************************************************************************)
(* The steps of a law.                                                     *)
(***************************************************************************)
\* an assignment to a physical parameter, as a step of the law
Assign(name, value, r) ==
    /\ law' = r.law
    /\ last' = Outcome(name, <<value>>, ~r.ok, FALSE, Unset)
    /\ UNCHANGED <<elem, pt, val>>

\* a constructor call, the first step: the law is the object, or none when
\* the constructor raised
Construct(name, arg, r) ==
    /\ law' = IF r.ok THEN r.law ELSE NoLaw
    /\ last' = Outcome(name, arg, ~r.ok, FALSE, Unset)
    /\ UNCHANGED <<elem, pt, val>>

Elas_Isot ==
    /\ last.op = "none"
    /\ \E dim \in Dims, E \in Moduli, v \in Poissons,
          planeStress \in BOOLEAN, thickness \in Thicknesses :
          Construct("Elas_Isot", <<dim>>,
                    Isot_init(dim, E, v, planeStress, thickness))

Elas_IsotTrans ==
    /\ last.op = "none"
    /\ \E dim \in Dims, El \in Moduli, Et \in EtInputs, Gl \in GlInputs,
          vl \in vlInputs, vt \in vtInputs, ax \in AxesInputs,
          planeStress \in BOOLEAN, thickness \in Thicknesses :
          Construct("Elas_IsotTrans", <<dim, ax>>,
                    IsotTrans_init(dim, El, Et, Gl, vl, vt, ax[1], ax[2],
                                   planeStress, thickness))

Elas_Anisot ==
    /\ last.op = "none"
    /\ \E dim \in Dims, C \in MatInputs, useVoigtNotation \in BOOLEAN,
          ax \in AxesInputs, thickness \in Thicknesses :
          Construct("Elas_Anisot", <<dim, ax, C, useVoigtNotation>>,
                    Anisot_init(dim, C, useVoigtNotation, ax[1], ax[2], thickness))

Set_E ==
    /\ law.kind = "Elas_Isot"
    /\ \E value \in Moduli : Assign("E", value, E_setter(law, value))

Set_v ==
    /\ law.kind = "Elas_Isot"
    /\ \E value \in Poissons : Assign("v", value, v_setter(law, value))

Set_El ==
    /\ law.kind = "Elas_IsotTrans"
    /\ \E value \in Moduli : Assign("El", value, El_setter(law, value))

Set_Et ==
    /\ law.kind = "Elas_IsotTrans"
    /\ \E value \in EtInputs : Assign("Et", value, Et_setter(law, value))

Set_Gl ==
    /\ law.kind = "Elas_IsotTrans"
    /\ \E value \in GlInputs : Assign("Gl", value, Gl_setter(law, value))

Set_vl ==
    /\ law.kind = "Elas_IsotTrans"
    /\ \E value \in vlInputs : Assign("vl", value, vl_setter(law, value))

Set_vt ==
    /\ law.kind = "Elas_IsotTrans"
    /\ \E value \in vtInputs : Assign("vt", value, vt_setter(law, value))

Set_planeStress ==
    /\ law.kind # "none"
    /\ \E value \in BOOLEAN :
          Assign("planeStress", value, planeStress_setter(law, value))

\* a read of C or of S, as a step of the law
Read(name, r) ==
    /\ law' = r.law
    /\ last' = Outcome(name, <<>>, ~r.ok, r.updated, r.ret)
    /\ UNCHANGED <<elem, pt, val>>

Get_C ==
    /\ law.kind # "none"
    /\ Read("C", C_getter(law))

Get_S ==
    /\ law.kind # "none"
    /\ Read("S", S_getter(law))

\* a call of get_bulk: the law is left as it is
Get_bulk ==
    /\ law.kind = "Elas_Isot"
    /\ law' = law
    /\ last' = Outcome("get_bulk", <<>>, FALSE, FALSE, get_bulk(law))
    /\ UNCHANGED <<elem, pt, val>>

\* a call of Walpole_Decomposition on an isotropic law
Walpole_Decomposition ==
    /\ law.kind = "Elas_Isot"
    /\ Read("Walpole_Decomposition", Isot_Walpole_Decomposition(law))

Set_C ==
    /\ law.kind = "Elas_Anisot"
    /\ \E C \in MatInputs, useVoigtNotation \in BOOLEAN, update_S \in BOOLEAN :
          Assign("Set_C", <<C, useVoigtNotation, update_S>>,
                 Anisot_Set_C(law, C, useVoigtNotation, update_S))

(***************************************************************************)
(* The prism elements: the shape functions and their first derivatives at  *)
(* a point (r, s, t) of the reference space.                               *)
(***************************************************************************)
\* PRISM6._N (lines 55-66), evaluated at (r, s, t)
PRISM6_N(r, s, t) ==
    << Div(Mul(Sub(t, I(1)), Sub(Add(r, s), I(1))), I(2)),
       Div(Mul(Neg(r), Sub(t, I(1))), I(2)),
       Div(Mul(Neg(s), Sub(t, I(1))), I(2)),
       Div(Mul(Neg(Add(t, I(1))), Sub(Add(r, s), I(1))), I(2)),
       Div(Mul(r, Add(t, I(1))), I(2)),
       Div(Mul(s, Add(t, I(1))), I(2)) >>

\* PRISM6._dN (lines 68-91), evaluated at (r, s, t)
PRISM6_dN(r, s, t) ==
    << << Sub(Div(t, I(2)), Div(I(1), I(2))),
         Sub(Div(t, I(2)), Div(I(1), I(2))),
         Sub(Add(Div(r, I(2)), Div(s, I(2))), Div(I(1), I(2))) >>,
       << Sub(Div(I(1), I(2)), Div(t, I(2))),
         I(0),
         Div(Neg(r), I(2)) >>,
       << I(0),
         Sub(Div(I(1), I(2)), Div(t, I(2))),
         Div(Neg(s), I(2)) >>,
       << Sub(Div(Neg(t), I(2)), Div(I(1), I(2))),
         Sub(Div(Neg(t), I(2)), Div(I(1), I(2))),
         Add(Sub(Div(Neg(r), I(2)), Div(s, I(2))), Div(I(1), I(2))) >>,
       << Add(Div(t, I(2)), Div(I(1), I(2))),
         I(0),
         Div(r, I(2)) >>,
       << I(0),
         Add(Div(t, I(2)), Div(I(1), I(2))),
         Div(s, I(2)) >> >>

\* PRISM15._N (lines 146-166), evaluated at (r, s, t)
PRISM15_N(r, s, t) ==
    << Div(Mul(Mul(Neg(Sub(t, I(1))), Sub(Add(r, s), I(1))), Add(Add(Mul(I(2), r), Mul(I(2), s)), t)), I(2)),
       Div(Mul(Mul(Neg(r), Sub(t, I(1))), Sub(Sub(Mul(I(2), r), t), I(2))), I(2)),
       Div(Mul(Mul(Neg(s), Sub(t, I(1))), Sub(Sub(Mul(I(2), s), t), I(2))), I(2)),
       Div(Mul(Mul(Add(t, I(1)), Sub(Add(r, s), I(1))), Sub(Add(Mul(I(2), r), Mul(I(2), s)), t)), I(2)),
       Div(Mul(Mul(r, Add(t, I(1))), Sub(Add(Mul(I(2), r), t), I(2))), I(2)),
       Div(Mul(Mul(s, Add(t, I(1))), Sub(Add(Mul(I(2), s), t), I(2))), I(2)),
       Mul(Mul(Mul(I(2), r), Sub(t, I(1))), Sub(Add(r, s), I(1))),
       Mul(Mul(Mul(I(2), s), Sub(t, I(1))), Sub(Add(r, s), I(1))),
       Mul(Mul(Sub(t, I(1)), Add(t, I(1))), Sub(Add(r, s), I(1))),
       Mul(Mul(Mul(Neg(I(2)), r), s), Sub(t, I(1))),
       Mul(Mul(Neg(r), Sub(t, I(1))), Add(t, I(1))),
       Mul(Mul(Neg(s), Sub(t, I(1))), Add(t, I(1))),
       Mul(Mul(Mul(Neg(I(2)), r), Add(t, I(1))), Sub(Add(r, s), I(1))),
       Mul(Mul(Mul(Neg(I(2)), s), Add(t, I(1))), Sub(Add(r, s), I(1))),
       Mul(Mul(Mul(I(2), r), s), Add(t, I(1))) >>

\* PRISM15._dN (lines 168-218), evaluated at (r, s, t)
PRISM15_dN(r, s, t) ==
    << << Sub(Mul(Neg(Sub(t, I(1))), Sub(Add(r, s), I(1))), Div(Mul(Sub(t, I(1)), Add(Add(Mul(I(2), r), Mul(I(2), s)), t)), I(2))),
         Sub(Mul(Neg(Sub(t, I(1))), Sub(Add(r, s), I(1))), Div(Mul(Sub(t, I(1)), Add(Add(Mul(I(2), r), Mul(I(2), s)), t)), I(2))),
         Sub(Div(Mul(Neg(Sub(t, I(1))), Sub(Add(r, s), I(1))), I(2)), Div(Mul(Sub(Add(r, s), I(1)), Add(Add(Mul(I(2), r), Mul(I(2), s)), t)), I(2))) >>,
       << Sub(Mul(Neg(r), Sub(t, I(1))), Div(Mul(Sub(t, I(1)), Sub(Sub(Mul(I(2), r), t), I(2))), I(2))),
         I(0),
         Sub(Div(Mul(r, Sub(t, I(1))), I(2)), Div(Mul(r, Sub(Sub(Mul(I(2), r), t), I(2))), I(2))) >>,
       << I(0),
         Sub(Mul(Neg(s), Sub(t, I(1))), Div(Mul(Sub(t, I(1)), Sub(Sub(Mul(I(2), s), t), I(2))), I(2))),
         Sub(Div(Mul(s, Sub(t, I(1))), I(2)), Div(Mul(s, Sub(Sub(Mul(I(2), s), t), I(2))), I(2))) >>,
       << Add(Mul(Add(t, I(1)), Sub(Add(r, s), I(1))), Div(Mul(Add(t, I(1)), Sub(Add(Mul(I(2), r), Mul(I(2), s)), t)), I(2))),
         Add(Mul(Add(t, I(1)), Sub(Add(r, s), I(1))), Div(Mul(Add(t, I(1)), Sub(Add(Mul(I(2), r), Mul(I(2), s)), t)), I(2))),
         Add(Div(Mul(Neg(Add(t, I(1))), Sub(Add(r, s), I(1))), I(2)), Div(Mul(Sub(Add(r, s), I(1)), Sub(Add(Mul(I(2), r), Mul(I(2), s)), t)), I(2))) >>,
       << Add(Mul(r, Add(t, I(1))), Div(Mul(Add(t, I(1)), Sub(Add(Mul(I(2), r), t), I(2))), I(2))),
         I(0),
         Add(Div(Mul(r, Add(t, I(1))), I(2)), Div(Mul(r, Sub(Add(Mul(I(2), r), t), I(2))), I(2))) >>,
       << I(0),
         Add(Mul(s, Add(t, I(1))), Div(Mul(Add(t, I(1)), Sub(Add(Mul(I(2), s), t), I(2))), I(2))),
         Add(Div(Mul(s, Add(t, I(1))), I(2)), Div(Mul(s, Sub(Add(Mul(I(2), s), t), I(2))), I(2))) >>,
       << Add(Mul(Mul(I(2), r), Sub(t, I(1))), Mul(Mul(I(2), Sub(t, I(1))), Sub(Add(r, s), I(1)))),
         Mul(Mul(I(2), r), Sub(t, I(1))),
         Mul(Mul(I(2), r), Sub(Add(r, s), I(1))) >>,
       << Mul(Mul(I(2), s), Sub(t, I(1))),
         Add(Mul(Mul(I(2), s), Sub(t, I(1))), Mul(Mul(I(2), Sub(t, I(1))), Sub(Add(r, s), I(1)))),
         Mul(Mul(I(2), s), Sub(Add(r, s), I(1))) >>,
       << Mul(Sub(t, I(1)), Add(t, I(1))),
         Mul(Sub(t, I(1)), Add(t, I(1))),
         Add(Mul(Sub(t, I(1)), Sub(Add(r, s), I(1))), Mul(Add(t, I(1)), Sub(Add(r, s), I(1)))) >>,
       << Mul(Mul(Neg(I(2)), s), Sub(t, I(1))),
         Mul(Mul(Neg(I(2)), r), Sub(t, I(1))),
         Mul(Mul(Neg(I(2)), r), s) >>,
       << Mul(Neg(Sub(t, I(1))), Add(t, I(1))),
         I(0),
         Sub(Mul(Neg(r), Sub(t, I(1))), Mul(r, Add(t, I(1)))) >>,
       << I(0),
         Mul(Neg(Sub(t, I(1))), Add(t, I(1))),
         Sub(Mul(Neg(s), Sub(t, I(1))), Mul(s, Add(t, I(1)))) >>,
       << Sub(Mul(Mul(Neg(I(2)), r), Add(t, I(1))), Mul(Mul(I(2), Add(t, I(1))), Sub(Add(r, s), I(1)))),
         Mul(Mul(Neg(I(2)), r), Add(t, I(1))),
         Mul(Mul(Neg(I(2)), r), Sub(Add(r, s), I(1))) >>,
       << Mul(Mul(Neg(I(2)), s), Add(t, I(1))),
         Sub(Mul(Mul(Neg(I(2)), s), Add(t, I(1))), Mul(Mul(I(2), Add(t, I(1))), Sub(Add(r, s), I(1)))),
         Mul(Mul(Neg(I(2)), s), Sub(Add(r, s), I(1))) >>,
       << Mul(Mul(I(2), s), Add(t, I(1))),
         Mul(Mul(I(2), r), Add(t, I(1))),
         Mul(Mul(I(2), r), s) >> >>

\* PRISM15._ddN (lines 220-240), evaluated at (r, s, t)
PRISM15_ddN(r, s, t) ==
    << << Sub(I(2), Mul(I(2), t)),
         Sub(I(2), Mul(I(2), t)),
         Add(Sub(Neg(r), s), I(1)) >>,
       << Sub(I(2), Mul(I(2), t)),
         I(0),
         r >>,
       << I(0),
         Sub(I(2), Mul(I(2), t)),
         s >>,
       << Add(Mul(I(2), t), I(2)),
         Add(Mul(I(2), t), I(2)),
         Add(Sub(Neg(r), s), I(1)) >>,
       << Add(Mul(I(2), t), I(2)),
         I(0),
         r >>,
       << I(0),
         Add(Mul(I(2), t), I(2)),
         s >>,
       << Sub(Mul(I(4), t), I(4)),
         I(0),
         I(0) >>,
       << I(0),
         Sub(Mul(I(4), t), I(4)),
         I(0) >>,
       << I(0),
         I(0),
         Sub(Add(Mul(I(2), r), Mul(I(2), s)), I(2)) >>,
       << I(0),
         I(0),
         I(0) >>,
       << I(0),
         I(0),
         Mul(Neg(I(2)), r) >>,
       << I(0),
         I(0),
         Mul(Neg(I(2)), s) >>,
       << Sub(Mul(Neg(I(4)), t), I(4)),
         I(0),
         I(0) >>,
       << I(0),
         Sub(Mul(Neg(I(4)), t), I(4)),
         I(0) >>,
       << I(0),
         I(0),
         I(0) >> >>

Elems == {"PRISM6", "PRISM15"}

\* number of nodes of the element
nPe(e) == IF e = "PRISM6" THEN 6 ELSE 15

\* the shape functions at the point x with r and s exchanged
N_at_exchanged(e, x) ==
    IF e = "PRISM6" THEN PRISM6_N(x[2], x[1], x[3]) ELSE PRISM15_N(x[2], x[1], x[3])

\* the shape functions at x, without the last one
N_at_short(e, x) ==
    IF e = "PRISM6" THEN SubSeq(PRISM6_N(x[1], x[2], x[3]), 1, 5) \o <<Zero>>
    ELSE SubSeq(PRISM15_N(x[1], x[2], x[3]), 1, 14) \o <<Zero>>

\* the shape functions of _N() at the point x
N_at(e, x) ==
    IF e = "PRISM6" THEN PRISM6_N(x[1], x[2], x[3]) ELSE PRISM15_N(x[1], x[2], x[3])

\* the derivatives at the point x with r and s exchanged
dN_at_exchanged(e, x) ==
    IF e = "PRISM6" THEN PRISM6_dN(x[2], x[1], x[3]) ELSE PRISM15_dN(x[2], x[1], x[3])

\* the derivatives of _dN() at the point x
dN_at(e, x) ==
    IF e = "PRISM6" THEN PRISM6_dN(x[1], x[2], x[3]) ELSE PRISM15_dN(x[1], x[2], x[3])

\* a table of derivatives: ok and the table, or an unsupported order
Table(t) == [ok |-> TRUE, table |-> t]

NotAvailable == [ok |-> FALSE, table |-> Unset]

\* _GroupElem._ddN of an element whose basis has no second derivatives: the
\* table of zeros, one row per node and one column per axis
GroupElem_ddN(e) == Table(Seq_([i \in 1..nPe(e) |-> <<Zero, Zero, Zero>>]))

\* _GroupElem._dddN: the order is not supported
GroupElem_dddN(e) == NotAvailable

\* _GroupElem._ddddN: the order is not supported
GroupElem_ddddN(e) == NotAvailable

\* the second derivatives at the point x with r and s exchanged
ddN_at_exchanged(e, x) ==
    IF e = "PRISM6" THEN GroupElem_ddN(e) ELSE Table(PRISM15_ddN(x[2], x[1], x[3]))

\* the second derivatives of _ddN() at the point x: PRISM6 leaves them to
\* _GroupElem
ddN_at(e, x) ==
    IF e = "PRISM6" THEN GroupElem_ddN(e) ELSE Table(PRISM15_ddN(x[1], x[2], x[3]))

\* a _dddN that answers as _ddN of _GroupElem does
dddN_at_zeros(e, x) == GroupElem_ddN(e)

\* _dddN(): both elements leave it to _GroupElem
dddN_at(e, x) == GroupElem_dddN(e)

\* _ddddN(): both elements leave it to _GroupElem
ddddN_at(e, x) == GroupElem_ddddN(e)

\* the coordinates of the points: the multiples of 1/2 up to MaxGrid / 2
Grid == {R(k, 2) : k \in (-MaxGrid)..MaxGrid}

\* the evaluation of a table of functions, as a step of the element
Evaluate(name, table) ==
    /\ val' = [fn |-> name, res |-> table, raised |-> FALSE]
    /\ UNCHANGED <<law, last, elem, pt>>

\* the request of a table of derivatives: its evaluation, or an error
Request(name, d) ==
    /\ val' = [fn |-> name, res |-> d.table, raised |-> ~d.ok]
    /\ UNCHANGED <<law, last, elem, pt>>

Evaluate_N ==
    /\ elem \in Elems
    /\ Evaluate("N", N_at(elem, pt))

Evaluate_dN ==
    /\ elem \in Elems
    /\ Evaluate("dN", dN_at(elem, pt))

Evaluate_ddN ==
    /\ elem \in Elems
    /\ Request("ddN", ddN_at(elem, pt))

Evaluate_dddN ==
    /\ elem \in Elems
    /\ Request("dddN", dddN_at(elem, pt))

Evaluate_ddddN ==
    /\ elem \in Elems
    /\ Request("ddddN", ddddN_at(elem, pt))

InitLaw ==
    /\ law = NoLaw
    /\ last = Outcome("none", <<>>, FALSE, FALSE, Unset)

NoEval == [fn |-> "none", res |-> Unset, raised |-> FALSE]

NoElem ==
    /\ elem = "none"
    /\ pt = <<Zero, Zero, Zero>>
    /\ val = NoEval

\* an element and a point of the reference space
InitElem ==
    /\ elem \in Elems
    /\ pt \in Grid \X Grid \X Grid
    /\ val = NoEval

Init == InitLaw /\ NoElem

Next ==
    \/ Elas_Isot
    \/ Elas_IsotTrans
    \/ Elas_Anisot
    \/ Set_E
    \/ Set_v
    \/ Set_El
    \/ Set_Et
    \/ Set_Gl
    \/ Set_vl
    \/ Set_vt
    \/ Set_planeStress
    \/ Get_C
    \/ Get_S
    \/ Get_bulk
    \/ Walpole_Decomposition
    \/ Set_C

\* the laws: construction, assignments, reads
Spec == Init /\ [][Next]_vars

InitPrism == InitLaw /\ InitElem

NextPrism ==
    \/ Evaluate_N
    \/ Evaluate_dN
    \/ Evaluate_ddN
    \/ Evaluate_dddN
    \/ Evaluate_ddddN

\* the elements: evaluations of the shape functions at a point
SpecPrism == InitPrism /\ [][NextPrism]_vars

(***************************************************************************)
(* Properties of the laws, checked under Spec.                             *)
(***************************************************************************)
PhysicalParams == {"E", "v", "El", "Et", "Gl", "vl", "vt"}

\* the laws whose matrices are computed by _Update from the parameters
Lazy(L) == L.kind \in {"Elas_Isot", "Elas_IsotTrans"}

\* C1, as stated: every successful assignment to a physical parameter leaves
\* the law stale, and a read of C or S made while the law is stale runs
\* _Update and leaves the law not stale.
C1_ReadClearsStale ==
    [][ /\ (last'.op \in PhysicalParams /\ ~last'.raised) => law'.needUpdate
        /\ (Lazy(law) /\ law.needUpdate /\ last'.op \in {"C", "S"})
              => (last'.updated /\ ~law'.needUpdate) ]_vars

\* C1, amended: every successful assignment to a physical parameter leaves
\* the law stale; a read of C or S made while the law is stale runs _Update,
\* and leaves the law not stale when it returns normally; when _Update raises
\* the read raises and the law stays as it was, stale.
C1_ReadThatReturnsClearsStale ==
    [][ /\ (last'.op \in PhysicalParams /\ ~last'.raised) => law'.needUpdate
        /\ (Lazy(law) /\ law.needUpdate /\ last'.op \in {"C", "S"})
              => /\ last'.updated
                 /\ ~last'.raised => ~law'.needUpdate
                 /\ last'.raised => (law' = law /\ law'.needUpdate) ]_vars

\* a read of a stale law has run _Update and cleared the flag
C1_Witness ==
    /\ Lazy(law)
    /\ last.op \in {"C", "S"}
    /\ last.updated
    /\ ~last.raised
    /\ ~law.needUpdate

\* the value a read returned is the one b = _Behavior gives
ReadIs(b) ==
    /\ b.ok
    /\ last.ret = IF last.op = "C" THEN b.c ELSE b.s

\* C2: for Elas_Isot and Elas_IsotTrans, a read of C (of S) that returns,
\* returns the stiffness (the compliance) that _Behavior computes from the
\* values the parameters have at that read, never a matrix of superseded
\* values.
C2_ReadIsCurrent ==
    (Lazy(law) /\ last.op \in {"C", "S"} /\ ~last.raised) => ReadIs(Behavior(law))

\* a read answered from the cache, on a law in plane stress
C2_Witness ==
    /\ Lazy(law)
    /\ last.op \in {"C", "S"}
    /\ ~last.raised
    /\ ~last.updated
    /\ law.dim = 2
    /\ law.planeStress

\* the results c and s of reading C and S: when both return, S C = I and C is
\* symmetric
Inverses(c, s) ==
    (c.ok /\ s.ok) =>
        /\ MatMul(s.ret, c.ret) = Eye(Len(c.ret))
        /\ c.ret = Transpose(c.ret)

\* C3: for every law, after any sequence of operations, whenever C and S can
\* both be read the two matrices are mutual inverses (S C = I) and C is
\* symmetric.
C3_MutualInverses ==
    law.kind # "none" => Inverses(C_getter(law), S_getter(law))

\* the values a setter refuses, by parameter
Inadmissible(name, value) ==
    IF name \in {"E", "El", "Et", "Gl"} THEN ~Pos(value)
    ELSE IF name = "vl" THEN ~(Less(I(-1), value) /\ Less(value, One))
    ELSE ~(Less(I(-1), value) /\ Less(value, R(1, 2)))

IsotPattern(size, n, l, mu) ==
    Seq_([i \in 1..size |-> Seq_([j \in 1..size |->
        IF i <= n /\ j <= n
        THEN (IF i = j THEN Add(l, Mul(I(2), mu)) ELSE l)
        ELSE IF i = j THEN Mul(I(2), mu) ELSE Zero])])

\* mu = E / (2 (1 + v))
Mu(E, v) == Div(E, Mul(I(2), Add(One, v)))

\* lambda = E v / (1 - v^2) in 2D plane stress, E v / ((1 + v)(1 - 2 v)) otherwise
Lambda(E, v, dim, planeStress) ==
    IF dim = 2 /\ planeStress
    THEN Div(Mul(E, v), Sub(One, Mul(v, v)))
    ELSE Div(Mul(E, v), Mul(Add(One, v), Sub(One, Mul(I(2), v))))

\* what C8 says of the value ret returned by the operation op
IsotValue(op, ret, dim, l, mu) ==
    /\ op = "C" => ret = IsotPattern(IF dim = 2 THEN 3 ELSE 6, dim, l, mu)
    /\ op = "C" => ret = Transpose(ret)
    /\ op = "get_bulk" => ret = Add(l, Div(Mul(I(2), mu), I(dim)))

\* C8: the C read from an Elas_Isot law is symmetric, 3x3 in 2D and 6x6 in
\* 3D, with lambda + 2 mu on the normal diagonal, lambda elsewhere in the
\* normal block, 2 mu on the shear diagonal and zero elsewhere, lambda being
\* the plane-stress one for a 2D law in plane stress; get_bulk returns
\* lambda + 2 mu / dim.
C8_IsotStiffness ==
    (law.kind = "Elas_Isot" /\ last.op \in {"C", "get_bulk"} /\ ~last.raised) =>
        IsotValue(last.op, last.ret, law.dim,
                  Lambda(law.E, law.v, law.dim, law.planeStress), Mu(law.E, law.v))

\* the C of a 2D law in plane stress with a non-zero Poisson ratio was read
C8_Witness ==
    /\ law.kind = "Elas_Isot"
    /\ last.op = "C"
    /\ ~last.raised
    /\ law.dim = 2
    /\ law.planeStress
    /\ ~IsZero(law.v)

\* the stiffness C9 describes: the rotation of M, set in a 6x6 matrix when it
\* is 3x3 and reduced to the dimension of the law L
Rotated(L, M) ==
    IF L.dim = 2
    THEN SubMat(Apply_Pmat(Get_Pmat(L.axis1, L.axis2),
                           IF Len(M) = 3 THEN Embed(M) ELSE M), <<1, 2, 6>>)
    ELSE Apply_Pmat(Get_Pmat(L.axis1, L.axis2), IF Len(M) = 3 THEN Embed(M) ELSE M)

\* the stiffness C9 describes for the input C
StoredFor(L, C, useVoigtNotation) ==
    Rotated(L, IF useVoigtNotation
               THEN KelvinMandel_Matrix(IF Len(C) = 6 THEN 3 ELSE 2, C)
               ELSE C)

\* C9: the stiffness that the constructor of Elas_Anisot or Set_C stores, for
\* a 3x3 or a 6x6 input, is the rotation of the Kelvin-Mandel conversion of
\* the input when useVoigtNotation is true, and the rotation of the input as
\* it is when useVoigtNotation is false.
C9_StoredStiffness ==
    /\ (last.op = "Elas_Anisot" /\ ~last.raised)
          => law.C = StoredFor(law, last.arg[3], last.arg[4])
    /\ (last.op = "Set_C" /\ ~last.raised)
          => law.C = StoredFor(law, last.arg[1][1], last.arg[1][2])

\* C10: constructing an Elas_Anisot or an Elas_IsotTrans law with two axes
\* whose dot product is not zero raises and yields no law; the axes of every
\* constructed law are orthogonal.
C10_OrthogonalAxes ==
    /\ (last.op \in {"Elas_Anisot", "Elas_IsotTrans"}
          /\ ~IsZero(Dot(last.arg[2][1], last.arg[2][2])))
          => (last.raised /\ law = NoLaw)
    /\ law.kind = "Elas_Anisot" => IsZero(Dot(law.axis1, law.axis2))
    /\ law.kind = "Elas_IsotTrans" => IsZero(Dot(law.axis_l, law.axis_t))

\* the operations that store the matrices of an Elas_Anisot law
Stores == {"Elas_Anisot", "Set_C"}

\* the law holds a stiffness and a compliance that are inverses of each other
HoldsInverses(L) ==
    /\ L.C # Unset
    /\ L.S # Unset
    /\ MatMul(L.S, L.C) = Eye(Len(L.C))

\* C11: in Elas_Anisot, a Set_C with update_S true (the constructor's
\* included) that returns normally has stored the stiffness and its inverse
\* and left the law stale; every other operation leaves C and S as they are,
\* and a read of C or of S returns the stored matrix, never raises, and, when
\* it runs _Update, changes neither C nor S.
C11_EagerSetC ==
    [][ /\ (last'.op = "Elas_Anisot" /\ ~last'.raised) => HoldsInverses(law')
        /\ (last'.op = "Set_C" /\ ~last'.raised /\ last'.arg[1][3])
              => HoldsInverses(law')
        /\ (law.kind = "Elas_Anisot" /\ last'.op \notin Stores)
              => (law'.C = law.C /\ law'.S = law.S)
        /\ (law.kind = "Elas_Anisot" /\ last'.op \in {"C", "S"})
              => /\ ~last'.raised
                 /\ last'.ret = law[last'.op]
                 /\ last'.updated = law.needUpdate ]_vars

\* the S of an Elas_Anisot law was read right after a Set_C: the read ran
\* _Update and returned the inverse that Set_C had stored
C11_Witness ==
    /\ law.kind = "Elas_Anisot"
    /\ last.op = "S"
    /\ last.updated
    /\ ~last.raised
    /\ last.ret = law.S
    /\ HoldsInverses(law)

\* the law after the reads listed in names, made in that order (a read that
\* raises leaves the law as it was)
RECURSIVE AfterReads(_, _)
AfterReads(L, names) ==
    IF names = <<>> THEN L
    ELSE AfterReads(Getter(L, Head(names)).law, Tail(names))

\* the reads made between the two assignments of planeStress
ReadSeqs == {<<>>, <<"C">>, <<"S">>, <<"C", "S">>, <<"S", "C">>}

\* the law L0 after planeStress is assigned its opposite value, the reads of
\* mid are made, and planeStress is assigned its original value
Toggled(L0, mid) ==
    planeStress_setter(
        AfterReads(planeStress_setter(L0, ~L0.planeStress).law, mid),
        L0.planeStress).law

\* a read that returned before returns the same matrix after
SameRead(before, after) == before.ok => (after.ok /\ after.ret = before.ret)

\* the read of name on L0 and the read of name after the two assignments
ToggleKeeps(L0, mid, name) ==
    SameRead(Getter(L0, name), Getter(Toggled(L0, mid), name))

\* C12: for a 2D Elas_Isot or Elas_IsotTrans law whose C and S have been
\* read, assigning planeStress its opposite value and then its original value,
\* with reads of C and S in between, gives reads of C and of S equal to those
\* made before the two assignments.
C12_ToggleRestores ==
    (Lazy(law) /\ law.dim = 2) =>
        \A mid \in ReadSeqs, name \in {"C", "S"} :
            ToggleKeeps(AfterReads(law, <<"C", "S">>), mid, name)

\* planeStress has just been assigned back on a 2D law whose cached C is the
\* one read under the opposite value, and differs from the one to be read
C12_Witness ==
    /\ Lazy(law)
    /\ law.dim = 2
    /\ last.op = "planeStress"
    /\ law.needUpdate
    /\ law.C # Unset
    /\ C_getter(law).ok
    /\ law.C # C_getter(law).ret
    /\ law.C = C_getter([law EXCEPT !.planeStress = ~law.planeStress]).ret

\* the sum of ci[k] * Ei[k] over the two terms of the decomposition
Reconstructed(ci, Ei) == MatAdd(MatScale(ci[1], Ei[1]), MatScale(ci[2], Ei[2]))

\* what C13 says of the value ret that Walpole_Decomposition returns on L
Decomposes(L, ret, bulk, mu) ==
    /\ ret[1] = <<bulk, mu>>
    /\ Reconstructed(ret[1], ret[2]) = L.C

\* C13: on every Elas_Isot law, in dim 2 as in dim 3 and under either value
\* of planeStress, Walpole_Decomposition returns normally, with ci = (bulk,
\* mu) and tensors Ei whose weighted sum 3 c1 E1 + 2 c2 E2 is the C of the law.
C13_WalpoleReconstructs ==
    last.op = "Walpole_Decomposition" =>
        /\ ~last.raised
        /\ Decomposes(law, last.ret,
                      Add(Lambda(law.E, law.v, law.dim, law.planeStress),
                          Div(Mul(I(2), Mu(law.E, law.v)), I(law.dim))),
                      Mu(law.E, law.v))

\* C14, as stated: for Elas_Isot and Elas_IsotTrans, a read of C or S runs
\* _Update exactly when the law is stale; the read that follows a successful
\* assignment to a physical parameter runs it, and a read that follows
\* another read, with no assignment in between, never does.
C14_UpdateOnce ==
    [][ (Lazy(law) /\ last'.op \in {"C", "S"})
            => /\ last'.updated = law.needUpdate
               /\ (last.op \in PhysicalParams /\ ~last.raised) => last'.updated
               /\ last.op \in {"C", "S"} => ~last'.updated ]_vars

\* C14, amended: for Elas_Isot and Elas_IsotTrans, a read of C or S runs
\* _Update exactly when the law is stale; the read that follows a successful
\* assignment to a physical parameter runs it; a read that follows a read
\* that returned normally does not, and a read that follows a read that
\* raised runs _Update again.
C14_UpdateOncePerReturn ==
    [][ (Lazy(law) /\ last'.op \in {"C", "S"})
            => /\ last'.updated = law.needUpdate
               /\ (last.op \in PhysicalParams /\ ~last.raised) => last'.updated
               /\ (last.op \in {"C", "S"} /\ ~last.raised) => ~last'.updated
               /\ (last.op \in {"C", "S"} /\ last.raised) => last'.updated ]_vars

\* the S of a transversely isotropic law was read from the cache
C14_Witness ==
    /\ law.kind = "Elas_IsotTrans"
    /\ last.op = "S"
    /\ ~last.raised
    /\ ~last.updated
    /\ ~law.needUpdate

\* C17: planeStress reads false on every Elas_Anisot law and on every law of
\* dimension 3, whatever operations were made, assignments of true to
\* planeStress included; it can read true only on a 2D Elas_Isot or
\* Elas_IsotTrans law.
C17_PlaneStressOnly2D ==
    (law.kind = "Elas_Anisot" \/ law.dim = 3) => ~law.planeStress

\* the sub-matrix at the indices 0, 1, 5 of the matrix M of the material base
\* turned by P into the global base
Reduced(P, M) == SubMat(Apply_Pmat(P, M), <<1, 2, 6>>)

\* what C18 says of the matrices of the 2D law L, P being Get_Pmat of its axes
ReducedFrom(L, P) ==
    IF L.planeStress
    THEN L.S = Reduced(P, material_sM(L)) /\ MatMul(L.C, L.S) = Eye(3)
    ELSE L.C = Reduced(P, material_cM(L)) /\ MatMul(L.S, L.C) = Eye(3)

\* C18: the matrices read from a 2D Elas_IsotTrans law are, in plane stress,
\* S the sub-matrix at the indices 0, 1, 5 of the rotated 6x6 compliance and C
\* its inverse, and in plane strain C the sub-matrix at the indices 0, 1, 5
\* of the rotated 6x6 stiffness and S its inverse.
C18_ReductionSource ==
    (law.kind = "Elas_IsotTrans" /\ law.dim = 2
        /\ last.op \in {"C", "S"} /\ ~last.raised) =>
        /\ last.ret = law[last.op]
        /\ ReducedFrom(law, Get_Pmat(law.axis_l, law.axis_t))

\* the C of a 2D law in plane stress was read, and it is not the sub-matrix
\* of the rotated stiffness
C18_Witness ==
    /\ law.kind = "Elas_IsotTrans"
    /\ law.dim = 2
    /\ law.planeStress
    /\ last.op = "C"
    /\ ~last.raised
    /\ law.C # Reduced(Get_Pmat(law.axis_l, law.axis_t), material_cM(law))

\* C19: a Set_C that raises (a non-symmetric input, an input of a wrong
\* shape, an input whose stiffness cannot be inverted) leaves the law as it
\* was before the call: C, S and needUpdate are unchanged.
C19_FailedSetCKeepsLaw ==
    [][ (last'.op = "Set_C" /\ last'.raised) => law' = law ]_vars

(***************************************************************************)
(* Properties of the prism elements, checked under SpecPrism.              *)
(***************************************************************************)
\* the reference coordinates of the six vertices (nodes 0..5)
Vertices ==
    << <<0, 0, -1>>, <<1, 0, -1>>, <<0, 1, -1>>,
       <<0, 0, 1>>, <<1, 0, 1>>, <<0, 1, 1>> >>

\* the edges whose midpoints are the nodes 6..14 of PRISM15
MidEdges ==
    << <<0, 1>>, <<0, 2>>, <<0, 3>>, <<1, 2>>, <<1, 4>>,
       <<2, 5>>, <<3, 4>>, <<3, 5>>, <<4, 5>> >>

\* the reference coordinates of node j - 1 (j from 1)
Node(j) ==
    IF j <= 6
    THEN Seq_([k \in 1..3 |-> I(Vertices[j][k])])
    ELSE Seq_([k \in 1..3 |->
             R(Vertices[MidEdges[j - 6][1] + 1][k]
                 + Vertices[MidEdges[j - 6][2] + 1][k], 2)])

\* the vector of length n that is 1 at index j and 0 elsewhere
OneHot(j, n) == Seq_([i \in 1..n |-> IF i = j THEN One ELSE Zero])

\* C5: for PRISM6 and PRISM15, the i-th shape function of _N at the
\* reference coordinates of node j is 1 if i = j and 0 otherwise.
C5_KroneckerDelta ==
    val.fn = "N" =>
        \A j \in 1..nPe(elem) : pt = Node(j) => val.res = OneHot(j, nPe(elem))

\* the shape functions of PRISM15 were evaluated at node 9, a mid-edge node
C5_Witness ==
    /\ val.fn = "N"
    /\ elem = "PRISM15"
    /\ pt = Node(10)
    /\ val.res = OneHot(10, 15)

\* C6: for PRISM6 and PRISM15, at every point the shape functions of _N sum
\* to 1, and each column of _dN sums to 0 over the nodes.
C6_PartitionOfUnity ==
    /\ val.fn = "N" => Sum(val.res, 1, nPe(elem)) = One
    /\ val.fn = "dN" =>
          \A k \in 1..3 :
              Sum(Seq_([i \in 1..nPe(elem) |-> val.res[i][k]]), 1, nPe(elem)) = Zero

\* the shape functions of PRISM15 were evaluated at a point that is no node
C6_Witness ==
    /\ val.fn = "N"
    /\ elem = "PRISM15"
    /\ pt = <<R(1, 2), R(-1, 2), R(1, 2)>>

\* the steps of the central differences: the multiples of 1/2 up to MaxStep / 2
Steps == {R(k, 2) : k \in 1..MaxStep}

\* the point x moved by h along axis k
Shift(x, k, h) == Seq_([a \in 1..3 |-> IF a = k THEN Add(x[a], h) ELSE x[a]])

\* the central difference of step h of the shape functions at x along axis k
CentralDiff(e, x, k, h, i) ==
    Div(Sub(N_at(e, Shift(x, k, h))[i], N_at(e, Shift(x, k, Neg(h)))[i]),
        Mul(I(2), h))

\* C7: for PRISM6 and PRISM15, every entry _dN[i][k] at a point is the
\* partial derivative of _N[i] along axis k: it equals the central difference
\* of _N[i] along k, for every step.
C7_GradientConsistency ==
    val.fn = "dN" =>
        \A i \in 1..nPe(elem), k \in 1..3, h \in Steps :
            val.res[i][k] = CentralDiff(elem, pt, k, h, i)

\* the derivatives of PRISM15 were evaluated at a point off the symmetry planes
C7_Witness ==
    /\ val.fn = "dN"
    /\ elem = "PRISM15"
    /\ pt = <<R(1, 2), One, R(-1, 2)>>

SecondDiff(e, x, k, h, i) ==
    Div(Sub(Add(N_at(e, Shift(x, k, h))[i], N_at(e, Shift(x, k, Neg(h)))[i]),
            Mul(I(2), N_at(e, x)[i])),
        Mul(h, h))

\* the central difference of step h of the first derivatives at x along axis k
CentralDiff_dN(e, x, k, h, i) ==
    Div(Sub(dN_at(e, Shift(x, k, h))[i][k], dN_at(e, Shift(x, k, Neg(h)))[i][k]),
        Mul(I(2), h))

\* C16: the table _ddN of PRISM15 is 15x3, and its entry [i][k] at a point
\* is the second partial derivative of _N[i] along axis k: it equals the
\* second difference of _N[i] and the central difference of _dN[i][k] along
\* k, for every step.
C16_SecondDerivatives ==
    (val.fn = "ddN" /\ elem = "PRISM15") =>
        /\ ~val.raised
        /\ Len(val.res) = 15
        /\ \A i \in 1..15 : Len(val.res[i]) = 3
        /\ \A i \in 1..15, k \in 1..3, h \in Steps :
              /\ val.res[i][k] = SecondDiff(elem, pt, k, h, i)
              /\ val.res[i][k] = CentralDiff_dN(elem, pt, k, h, i)

\* the second derivatives of PRISM15 were evaluated at a point where r # s
C16_Witness ==
    /\ val.fn = "ddN"
    /\ elem = "PRISM15"
    /\ ~val.raised
    /\ pt = <<R(1, 2), One, R(-1, 2)>>
    /\ val.res[2][3] = R(1, 2)

====
